---- MODULE Spec2Model ----
(***************************************************************************)
(* Model of my_retriever.py: the Retrieve engine (boolean candidate        *)
(* selection, binary / tf / tf.idf weighting callbacks, cosine ranking and *)
(* the lazily computed collection size).                                   *)
(*                                                                         *)
(* Python dicts are insertion ordered, so a dict is a sequence of          *)
(* [key, val] entries.  The index is a dict term -> (dict docid -> count). *)
(*                                                                         *)
(* Arithmetic is exact.  With at most two documents every quotient         *)
(* collectionSize / len(index[term]) is 1/2, 1 or 2, so every math.log     *)
(* value is an integer multiple of ln 2 and a tf.idf weight is kept as     *)
(* that integer.  A similarity sqd / sqrt(ssd) is kept as the pair         *)
(* [num |-> sqd, den2 |-> ssd] and compared by cross multiplication.       *)
(***************************************************************************)
EXTENDS Integers, Sequences, FiniteSets

\* Insertion order used for the keys of a constructed index.  Terms are
\* opaque to the code, so naming them by insertion rank loses nothing.
TermOrder == <<"cat", "dog", "emu">>
Terms == {TermOrder[i] : i \in 1..Len(TermOrder)}
Docs == {1, 2}
Schemes == {"binary", "tf", "tfidf", "bm25"}
\* Addresses a dict object can live at: the values of id(self.index).
Addrs == {1, 2}

MaxFreq == 2
MaxQueryFreq == 2
MaxEnvOps == 2

VARIABLES
    index,                  \* self.index: the dict the engine references
    indexId,                \* id(self.index)
    termWeighting,          \* self.termWeighting
    collectionSize,         \* self.__collectionSize
    collectionSizeTarget,   \* self.__collectionSizeTarget
    call,                   \* observation of the latest forQuery call
    hist,                   \* what the caller did to the index since then
    envOps                  \* number of caller-side changes so far

vars == <<index, indexId, termWeighting, collectionSize, collectionSizeTarget,
          call, hist, envOps>>

-----------------------------------------------------------------------------
\* dict helpers

KeySet(d) == {d[i].key : i \in 1..Len(d)}

Get(d, k) == d[CHOOSE i \in 1..Len(d) : d[i].key = k].val

\* d[k] = v: an existing key keeps its position, a new key is appended
Put(d, k, v) ==
    IF k \in KeySet(d)
    THEN [i \in 1..Len(d) |-> IF d[i].key = k THEN [key |-> k, val |-> v] ELSE d[i]]
    ELSE Append(d, [key |-> k, val |-> v])

\* del d[k]
Del(d, k) == SelectSeq(d, LAMBDA e : e.key # k)

Perms(S) ==
    {s \in [1..Cardinality(S) -> S] : \A i, j \in 1..Cardinality(S) : i # j => s[i] # s[j]}

RECURSIVE SetToSeq(_)
SetToSeq(S) ==
    IF S = {} THEN <<>>
    ELSE LET x == CHOOSE y \in S : TRUE IN <<x>> \o SetToSeq(S \ {x})

\* math.log(n / d) in units of math.log(2)
Log(n, d) ==
    CASE n = d -> 0
      [] n = 2 * d -> 1
      [] d = 2 * n -> -1

\* the engine object
Self == [index |-> index, indexId |-> indexId, termWeighting |-> termWeighting,
         collectionSize |-> collectionSize,
         collectionSizeTarget |-> collectionSizeTarget]

-----------------------------------------------------------------------------
\* resetCollectionSize

\* Mutant: the two attributes are left as they are
ResetSkipped(self) == self

ResetCollectionSizeOf(self) ==
    [self EXCEPT !.collectionSize = -1, !.collectionSizeTarget = -1]

-----------------------------------------------------------------------------
\* Weighting callbacks.  Each returns [ret, self, rec]: the returned weight,
\* the engine afterwards and a record of the invocation (rec.size is the
\* collection size the invocation divided, rec.dfOf the term whose posting
\* list it measured; neither is read by the binary and tf callbacks).

BinaryWeighting(self, term, freq) ==
    [ret |-> 1, self |-> self,
     rec |-> [term |-> term, freq |-> freq, ret |-> 1,
              lazy |-> FALSE, size |-> 0, dfOf |-> term]]

TfWeighting(self, term, freq) ==
    [ret |-> freq, self |-> self,
     rec |-> [term |-> term, freq |-> freq, ret |-> freq,
              lazy |-> FALSE, size |-> 0, dfOf |-> term]]

\* The set built by the lazy loading loop
DocSet(idx) == UNION {KeySet(idx[i].val) : i \in 1..Len(idx)}

\* "Init collection size (Lazy loading)"
LazyLoad(self) ==
    IF self.collectionSizeTarget # self.indexId
    THEN [self EXCEPT !.collectionSize = Cardinality(DocSet(self.index)),
                      !.collectionSizeTarget = self.indexId]
    ELSE self

\* The value of the name `term` when the weight is calculated: the loop
\* "for term in self.index.keys()" of the lazy loading rebinds the parameter,
\* which is then the last key of the index.
TermAfterInit(self, term) ==
    IF self.collectionSizeTarget # self.indexId /\ Len(self.index) > 0
    THEN self.index[Len(self.index)].key
    ELSE term

TfidfWeighting(self, term, freq) ==
    LET after == LazyLoad(self)
        used  == TermAfterInit(self, term)
        tf    == TfWeighting(after, used, freq).ret
        idf   == Log(after.collectionSize, Len(Get(after.index, used)))
    IN  [ret |-> tf * idf, self |-> after,
         rec |-> [term |-> term, freq |-> freq, ret |-> tf * idf,
                  lazy |-> self.collectionSizeTarget # self.indexId,
                  size |-> after.collectionSize, dfOf |-> used]]

\* weightingCallback(term, freq)
Callback(cb, self, term, freq) ==
    CASE cb = "binary" -> BinaryWeighting(self, term, freq)
      [] cb = "tf"     -> TfWeighting(self, term, freq)
      [] cb = "tfidf"  -> TfidfWeighting(self, term, freq)

-----------------------------------------------------------------------------
\* __findRelated: the union of the posting lists of the query terms that are
\* keys of the index.  A query is a function from its terms to their counts.

\* Mutant: a document must hold every query term of the index, not one of them
FindRelatedEvery(self, query) ==
    {d \in Docs :
        /\ \E t \in DOMAIN query : t \in KeySet(self.index)
        /\ \A t \in DOMAIN query :
               t \in KeySet(self.index) => d \in KeySet(Get(self.index, t))}

\* Mutant: the loop runs over the keys of the index, not of the query
FindRelatedIndexKeys(self, query) ==
    UNION {KeySet(Get(self.index, t)) : t \in KeySet(self.index)}

FindRelated(self, query) ==
    UNION {KeySet(Get(self.index, t)) : t \in {u \in DOMAIN query : u \in KeySet(self.index)}}

-----------------------------------------------------------------------------
\* __rankByCosSim

\* The postings in the order the nested loops over self.index visit them
RECURSIVE ScanPostings(_, _)
ScanPostings(idx, i) ==
    IF i > Len(idx) THEN <<>>
    ELSE [j \in 1..Len(idx[i].val) |->
             [term |-> idx[i].key, docid |-> idx[i].val[j].key, freq |-> idx[i].val[j].val]]
         \o ScanPostings(idx, i + 1)

\* Mutant: "=" for "+="
SsdAssign(old, d) == d * d

\* ssdDict[docid] += d * d
SsdAdd(old, d) == old + d * d

\* "Calc sum square of d": acc is [ssd, self, calls]
RECURSIVE SsdLoop(_, _, _, _, _)
SsdLoop(cb, relatesDocids, scan, i, acc) ==
    IF i > Len(scan) THEN acc
    ELSE IF scan[i].docid \notin relatesDocids
         THEN SsdLoop(cb, relatesDocids, scan, i + 1, acc)
         ELSE LET w == Callback(cb, acc.self, scan[i].term, scan[i].freq)
              IN  SsdLoop(cb, relatesDocids, scan, i + 1,
                          [ssd   |-> [acc.ssd EXCEPT ![scan[i].docid] = SsdAdd(@, w.ret)],
                           self  |-> w.self,
                           calls |-> acc.calls \cup {w.rec}])

\* The loop over query.keys() for one docid: acc is [sqd, self, calls]
RECURSIVE SqdTerms(_, _, _, _, _, _)
SqdTerms(cb, query, qkeys, j, docid, acc) ==
    IF j > Len(qkeys) THEN acc
    ELSE LET term == qkeys[j] IN
         IF term \notin KeySet(acc.self.index)
            \/ docid \notin KeySet(Get(acc.self.index, term))
         THEN SqdTerms(cb, query, qkeys, j + 1, docid, acc)
         ELSE LET termIndex == Get(acc.self.index, term)
                  d == Callback(cb, acc.self, term, Get(termIndex, docid))
                  q == Callback(cb, d.self, term, query[term])
              IN  SqdTerms(cb, query, qkeys, j + 1, docid,
                           [sqd   |-> acc.sqd + q.ret * d.ret,
                            self  |-> q.self,
                            calls |-> acc.calls \cup {d.rec, q.rec}])

\* "Calc sum of q * d (sqd) & document similarity": acc is
\* [sims, self, calls, raised]; a zero ssdDict[docid] makes the division raise
RECURSIVE SqdLoop(_, _, _, _, _, _)
SqdLoop(cb, query, order, i, ssdDict, acc) ==
    IF i > Len(order) THEN acc
    ELSE LET docid == order[i]
             t == SqdTerms(cb, query, SetToSeq(DOMAIN query), 1, docid,
                           [sqd |-> 0, self |-> acc.self, calls |-> acc.calls])
         IN  IF ssdDict[docid] = 0
             THEN [acc EXCEPT !.self = t.self, !.calls = t.calls, !.raised = TRUE]
             ELSE SqdLoop(cb, query, order, i + 1, ssdDict,
                          [sims   |-> Append(acc.sims,
                                             [docid |-> docid,
                                              sim |-> [num |-> t.sqd, den2 |-> ssdDict[docid]]]),
                           self   |-> t.self,
                           calls  |-> t.calls,
                           raised |-> FALSE])

\* x / sqrt(y) grows with sign(x) * x^2 / y
SignedSquare(x) == IF x < 0 THEN -(x * x) ELSE x * x

SimGE(a, b) == SignedSquare(a.num) * b.den2 >= SignedSquare(b.num) * a.den2

SimEq(a, b) == SimGE(a, b) /\ SimGE(b, a)

\* list.sort(key=sim, reverse=True): stable, equal keys keep their order
RECURSIVE InsertDesc(_, _)
InsertDesc(sorted, x) ==
    IF sorted = <<>> THEN <<x>>
    ELSE IF SimGE(Head(sorted).sim, x.sim)
         THEN <<Head(sorted)>> \o InsertDesc(Tail(sorted), x)
         ELSE <<x>> \o sorted

RECURSIVE SortDesc(_, _)
SortDesc(list, i) ==
    IF i = 0 THEN <<>> ELSE InsertDesc(SortDesc(list, i - 1), list[i])

\* order is the order in which the set relatesDocids is iterated
RankByCosSim(self, query, cb, order) ==
    LET relatesDocids == FindRelated(self, query)
        a == SsdLoop(cb, relatesDocids, ScanPostings(self.index, 1), 1,
                     [ssd |-> [d \in relatesDocids |-> 0], self |-> self, calls |-> {}])
        b == SqdLoop(cb, query, order, 1, a.ssd,
                     [sims |-> <<>>, self |-> a.self, calls |-> a.calls, raised |-> FALSE])
        docsSimilarity == SortDesc(b.sims, Len(b.sims))
    IN  [raised |-> b.raised,
         result |-> IF b.raised THEN <<>>
                    ELSE [i \in 1..Len(docsSimilarity) |-> docsSimilarity[i].docid],
         sims   |-> [d \in {b.sims[i].docid : i \in 1..Len(b.sims)} |->
                        b.sims[CHOOSE i \in 1..Len(b.sims) : b.sims[i].docid = d].sim],
         ssd    |-> a.ssd,
         self   |-> b.self,
         calls  |-> b.calls]

-----------------------------------------------------------------------------
\* forQuery: the callback the scheme selects, and whether the warning is printed

\* Mutant: the fall-back to binary prints nothing
DispatchSilent(scheme) ==
    IF scheme = "tf" THEN [cb |-> "tf", warned |-> FALSE]
    ELSE IF scheme = "tfidf" THEN [cb |-> "tfidf", warned |-> FALSE]
    ELSE [cb |-> "binary", warned |-> FALSE]

Dispatch(scheme) ==
    IF scheme = "binary" THEN [cb |-> "binary", warned |-> FALSE]
    ELSE IF scheme = "tf" THEN [cb |-> "tf", warned |-> FALSE]
    ELSE IF scheme = "tfidf" THEN [cb |-> "tfidf", warned |-> FALSE]
    ELSE [cb |-> "binary", warned |-> TRUE]

NoCall == [outcome |-> "none"]

Queries == UNION {[T -> 1..MaxQueryFreq] : T \in SUBSET Terms}

\* The caller asks a query when it holds no result, or repeats the query it
\* has just asked.
ForQuery(query) ==
    /\ IF call = NoCall THEN TRUE ELSE call.query = query
    /\ \E order \in Perms(FindRelated(Self, query)) :
       \E d \in {Dispatch(termWeighting)} :
       \E r \in {RankByCosSim(Self, query, d.cb, order)} :
           /\ collectionSize' = r.self.collectionSize
           /\ collectionSizeTarget' = r.self.collectionSizeTarget
           /\ call' = [outcome |-> IF r.raised THEN "ZeroDivisionError" ELSE "returned",
                       query   |-> query,
                       order   |-> order,
                       before  |-> Self,
                       warned  |-> d.warned,
                       result  |-> r.result,
                       sims    |-> r.sims,
                       ssd     |-> r.ssd,
                       calls   |-> r.calls,
                       hist    |-> hist]
    /\ hist' = [tag |-> "none"]
    /\ UNCHANGED <<index, indexId, termWeighting, envOps>>

\* The caller is done with the returned list (or the exception)
TakeResult ==
    /\ call # NoCall
    /\ call' = NoCall
    /\ UNCHANGED <<index, indexId, termWeighting, collectionSize,
                   collectionSizeTarget, hist, envOps>>

ResetCollectionSize ==
    /\ collectionSize' = ResetCollectionSizeOf(Self).collectionSize
    /\ collectionSizeTarget' = ResetCollectionSizeOf(Self).collectionSizeTarget
    /\ call' = NoCall
    /\ hist' = IF hist.tag = "altered"
               THEN [tag |-> "alteredReset", held |-> hist.held]
               ELSE hist
    /\ UNCHANGED <<index, indexId, termWeighting, envOps>>

-----------------------------------------------------------------------------
\* The caller's side: the engine holds a reference to the caller's dict, so
\* the caller can change the dict in place or bind self.index to another one.

\* hist after an in-place change: "altered" once the number of distinct
\* documents changed, with the collection size the engine held at that time
AfterChange(new) ==
    IF Cardinality(DocSet(new)) = Cardinality(DocSet(index)) THEN hist
    ELSE IF hist.tag = "altered" THEN hist
    ELSE [tag |-> "altered",
          held |-> IF collectionSizeTarget = indexId THEN collectionSize ELSE -1]

InPlace(new) ==
    /\ envOps < MaxEnvOps
    /\ index' = new
    /\ hist' = AfterChange(new)
    /\ call' = NoCall
    /\ envOps' = envOps + 1
    /\ UNCHANGED <<indexId, termWeighting, collectionSize, collectionSizeTarget>>

\* index[term][docid] = freq
AddPosting(term, docid, freq) ==
    InPlace(Put(index, term,
                Put(IF term \in KeySet(index) THEN Get(index, term) ELSE <<>>, docid, freq)))

\* del index[term][docid], and del index[term] when that empties it
RemovePosting(term, docid) ==
    /\ term \in KeySet(index)
    /\ docid \in KeySet(Get(index, term))
    /\ InPlace(IF Len(Get(index, term)) = 1
               THEN Del(index, term)
               ELSE Put(index, term, Del(Get(index, term), docid)))

\* self.index = new, a dict living at addr.  The dict self.index referenced
\* until now is alive when new is built, so addr differs from its address;
\* the address of a dict dropped earlier can be handed out again.
ReplaceIndex(new, addr) ==
    /\ envOps < MaxEnvOps
    /\ addr # indexId
    /\ index' = new
    /\ indexId' = addr
    /\ hist' = [tag |-> "none"]
    /\ call' = NoCall
    /\ envOps' = envOps + 1
    /\ UNCHANGED <<termWeighting, collectionSize, collectionSizeTarget>>

-----------------------------------------------------------------------------
\* Indexes an engine is constructed on: the keys in the given insertion
\* order, every posting list non-empty, counts positive.

Postings ==
    {p \in UNION {[1..n -> [key : Docs, val : 1..MaxFreq]] : n \in 1..Cardinality(Docs)} :
        \A i, j \in 1..Len(p) : i # j => p[i].key # p[j].key}

Indexes(keys) ==
    UNION {{[i \in 1..k |-> [key |-> keys[i], val |-> ps[i]]] : ps \in [1..k -> Postings]} :
           k \in 0..Len(keys)}

\* The index of the worked scenario
ScenarioIndex ==
    <<[key |-> "cat", val |-> <<[key |-> 1, val |-> 2], [key |-> 2, val |-> 1]>>],
      [key |-> "dog", val |-> <<[key |-> 2, val |-> 3]>>]>>

\* __init__(index, termWeighting), which ends in resetCollectionSize()
Constructed(indexes, schemes) ==
    /\ index \in indexes
    /\ indexId = 1
    /\ termWeighting \in schemes
    /\ collectionSize = -1
    /\ collectionSizeTarget = -1
    /\ call = NoCall
    /\ hist = [tag |-> "none"]
    /\ envOps = 0

\* An engine of any scheme whose index stays as constructed
InitStatic == Constructed(Indexes(<<"cat", "dog">>) \cup {ScenarioIndex}, Schemes)

NextStatic ==
    \/ \E query \in Queries : ForQuery(query)
    \/ TakeResult
    \/ ResetCollectionSize

SpecStatic == InitStatic /\ [][NextStatic]_vars

\* A tf.idf engine on a three-term index that stays as constructed
InitTfidf == Constructed(Indexes(TermOrder), {"tfidf"})

SpecTfidf == InitTfidf /\ [][NextStatic]_vars

\* A tf.idf engine whose caller changes and replaces the index
Init == Constructed(Indexes(<<"cat">>), {"tfidf"})

Next ==
    \/ \E query \in Queries : ForQuery(query)
    \/ TakeResult
    \/ ResetCollectionSize
    \/ \E term \in Terms, docid \in Docs, freq \in 1..MaxFreq : AddPosting(term, docid, freq)
    \/ \E term \in Terms, docid \in Docs : RemovePosting(term, docid)
    \/ \E new \in Indexes(<<"cat">>), addr \in Addrs : ReplaceIndex(new, addr)

Spec == Init /\ [][Next]_vars

\* A tf.idf engine whose caller replaces the index and never changes one in place
NextReplace ==
    \/ \E query \in Queries : ForQuery(query)
    \/ TakeResult
    \/ ResetCollectionSize
    \/ \E new \in Indexes(<<"cat">>), addr \in Addrs : ReplaceIndex(new, addr)

SpecReplace == Init /\ [][NextReplace]_vars

-----------------------------------------------------------------------------
\* What the specification says of candidates, weights and scores (sections
\* 4.1 to 4.3), written over sets and independent of the loops above.

Candidates(idx, query) ==
    {d \in Docs : \E i \in 1..Len(idx) : idx[i].key \in DOMAIN query /\ d \in KeySet(idx[i].val)}

TermsOf(idx, d) == {t \in KeySet(idx) : d \in KeySet(Get(idx, t))}

Count(idx, t, d) == Get(Get(idx, t), d)

Weight(scheme, idx, t, f) ==
    CASE scheme = "binary" -> 1
      [] scheme = "tf"     -> f
      [] scheme = "tfidf"  -> f * Log(Cardinality(DocSet(idx)), Len(Get(idx, t)))

\* The sum of the values of the function f
RECURSIVE Sum(_)
Sum(f) ==
    IF DOMAIN f = {} THEN 0
    ELSE LET x == CHOOSE y \in DOMAIN f : TRUE
         IN  f[x] + Sum([y \in DOMAIN f \ {x} |-> f[y]])

Dot(scheme, idx, query, d) ==
    Sum([t \in TermsOf(idx, d) \cap DOMAIN query |->
            Weight(scheme, idx, t, query[t]) * Weight(scheme, idx, t, Count(idx, t, d))])

Norm2(scheme, idx, d) ==
    Sum([t \in TermsOf(idx, d) |->
            Weight(scheme, idx, t, Count(idx, t, d)) * Weight(scheme, idx, t, Count(idx, t, d))])

\* dot product / sqrt(sum of squares), and 0 when the sum of squares is 0
Score(scheme, idx, query, d) ==
    IF Norm2(scheme, idx, d) = 0 THEN [num |-> 0, den2 |-> 1]
    ELSE [num |-> Dot(scheme, idx, query, d), den2 |-> Norm2(scheme, idx, d)]

\* The scheme the engine ranks with
EngineScheme == Dispatch(termWeighting).cb

Called == call.outcome # "none"

Returned == call.outcome = "returned"

Range(seq) == {seq[i] : i \in 1..Len(seq)}

\* The query without the terms that are no key of the index
Indexed(query) == [t \in {u \in DOMAIN query : u \in KeySet(index)} |-> query[t]]

-----------------------------------------------------------------------------
\* C1: when forQuery returns, the returned list holds exactly the candidate
\* documents (those in the posting list of a query term of the index), each
\* once.
ResultIsCandidates ==
    Returned =>
        /\ Range(call.result) = Candidates(index, call.query)
        /\ Len(call.result) = Cardinality(Candidates(index, call.query))

\* A two-term query returned one of the two documents of the index
ResultIsCandidatesWitness ==
    /\ Returned
    /\ Cardinality(DOMAIN call.query) = 2
    /\ DOMAIN call.query \cap KeySet(index) # {}
    /\ Len(call.result) = 1
    /\ Cardinality(DocSet(index)) = 2

\* C2: a candidate whose accumulated sum of squared weights is zero gets
\* score 0 and is in the returned list; forQuery does not fail with a
\* division error.
ZeroNormScoresZero ==
    (Called /\ \E d \in DOMAIN call.ssd : call.ssd[d] = 0) =>
        /\ Returned
        /\ \A d \in DOMAIN call.ssd :
               call.ssd[d] = 0 =>
                   d \in Range(call.result) /\ d \in DOMAIN call.sims /\ call.sims[d].num = 0

\* C3: under tfidf every invocation of the weighting function, the one that
\* loads the collection size included, returns
\* frequency * log(collectionSize / documentFrequency(term)) for the term it
\* was given.
TfidfWeightOfGivenTerm ==
    (Called /\ termWeighting = "tfidf") =>
        \A c \in call.calls : c.ret = Weight("tfidf", index, c.term, c.freq)

\* C4: the returned list is sorted descending by the cosine score of section
\* 4.3 under the engine's scheme.
SortedByScore ==
    Returned =>
        \A i, j \in 1..Len(call.result) :
            i < j => SimGE(Score(EngineScheme, index, call.query, call.result[i]),
                           Score(EngineScheme, index, call.query, call.result[j]))

\* C5: every tf.idf weight computation uses the number of distinct documents
\* of the index the engine references now, whatever the caller did before.
CollectionSizeIsCurrent ==
    (Called /\ termWeighting = "tfidf") =>
        \A c \in call.calls : c.size = Cardinality(DocSet(index))

\* C6: after an in-place change of the number of distinct documents and then
\* resetCollectionSize, the next forQuery loads the collection size from the
\* changed index and every weight of the call uses it.
ResetRefreshesCollectionSize ==
    (Called /\ termWeighting = "tfidf" /\ call.hist.tag = "alteredReset") =>
        /\ \A c \in call.calls : c.size = Cardinality(DocSet(index))
        /\ call.calls # {} =>
               /\ \E c \in call.calls : c.lazy
               /\ collectionSize = Cardinality(DocSet(index))
               /\ collectionSizeTarget = indexId

\* The engine held another collection size when the index was changed
ResetRefreshesCollectionSizeWitness ==
    /\ Called
    /\ termWeighting = "tfidf"
    /\ call.hist.tag = "alteredReset"
    /\ call.hist.held # -1
    /\ call.hist.held # Cardinality(DocSet(index))
    /\ call.calls # {}
    /\ collectionSize = Cardinality(DocSet(index))

\* The query of the scenario
ScenarioQuery == [t \in {"cat"} |-> 1]

\* C7: under binary and tf the score's denominator squares the weights of
\* all terms of the document and its numerator sums q * d over the query
\* terms that hold the document; in the scenario doc 1 scores 1, doc 2
\* scores 1/sqrt(2) and the result is [1, 2].
CosineOverAllTerms ==
    (Called /\ termWeighting \in {"binary", "tf"}) =>
        /\ Returned
        /\ DOMAIN call.sims = Candidates(index, call.query)
        /\ \A d \in DOMAIN call.sims :
               /\ call.sims[d].num = Dot(termWeighting, index, call.query, d)
               /\ call.sims[d].den2 = Norm2(termWeighting, index, d)
        /\ (index = ScenarioIndex /\ termWeighting = "binary" /\ call.query = ScenarioQuery) =>
               /\ call.sims[1] = [num |-> 1, den2 |-> 1]
               /\ call.sims[2] = [num |-> 1, den2 |-> 2]
               /\ call.result = <<1, 2>>

CosineOverAllTermsWitness ==
    /\ Returned
    /\ index = ScenarioIndex
    /\ termWeighting = "binary"
    /\ call.query = ScenarioQuery
    /\ call.result = <<1, 2>>

\* C8: an engine of an unknown scheme prints the warning on every forQuery
\* and returns what binary returns for the same index and query.
UnknownSchemeWarnsAndIsBinary ==
    (Called /\ termWeighting \notin {"binary", "tf", "tfidf"}) =>
        /\ call.warned
        /\ Returned
        /\ call.result = RankByCosSim(call.before, call.query, "binary", call.order).result
        /\ \A d \in DOMAIN call.sims :
               SimEq(call.sims[d], Score("binary", index, call.query, d))

UnknownSchemeWarnsAndIsBinaryWitness ==
    /\ Returned
    /\ termWeighting = "bm25"
    /\ call.warned
    /\ Len(call.result) = 2

\* C9: a query with no term among the keys of the index returns the empty
\* list, raises nothing and invokes no weighting; a term that is no key
\* changes neither the candidates nor a score.
AbsentTermsCountForNothing ==
    Called =>
        /\ DOMAIN call.query \cap KeySet(index) = {} =>
               Returned /\ call.result = <<>> /\ call.calls = {}
        /\ \A c \in call.calls : c.term \in KeySet(index)
        /\ DOMAIN call.ssd = Candidates(index, Indexed(call.query))
        /\ \E r \in {RankByCosSim(call.before, Indexed(call.query), EngineScheme, call.order)} :
               /\ r.raised = (call.outcome = "ZeroDivisionError")
               /\ r.result = call.result
               /\ r.sims = call.sims

\* A query of terms that are no keys, on an index that holds documents
AbsentTermsCountForNothingWitness ==
    /\ Returned
    /\ index # <<>>
    /\ call.query # <<>>
    /\ DOMAIN call.query \cap KeySet(index) = {}
    /\ call.result = <<>>

\* C10: on an unchanged index a tfidf call made with the collection size not
\* loaded and the same query repeated at once give the same outcome, scores
\* and ranking.
ColdWarmAgree ==
    [][(/\ termWeighting = "tfidf"
        /\ Called
        /\ call.before.collectionSizeTarget # indexId
        /\ call'.outcome # "none"
        /\ call'.before.collectionSizeTarget = indexId
        /\ call'.query = call.query
        /\ call'.order = call.order)
       => (/\ call'.outcome = call.outcome
           /\ call'.result = call.result
           /\ DOMAIN call'.sims = DOMAIN call.sims
           /\ \A d \in DOMAIN call.sims : SimEq(call'.sims[d], call.sims[d]))]_vars

====
